---- MODULE Spec2Model ----
(***************************************************************************)
(* Refugee registration intake (src/app.py): the POST /submit handler      *)
(* submit_form, the GET /view handler view_registrations, the JSON store   *)
(* file registrations.json and the uploads directory.                      *)
(*                                                                         *)
(* A Python str is a sequence of one-character strings; the token "sup2"   *)
(* stands for the single code point U+00B2 (superscript two), a character  *)
(* for which str.isdigit() is True and int() raises ValueError.  Python's  *)
(* None is the empty sequence <<>> and a present value x is <<x>>.         *)
(***************************************************************************)
EXTENDS Integers, Sequences, FiniteSets, TLC

\* ------------------------------------------------------------------ bounds
\* No more than MaxSubmitted rule-conforming submissions are posted.
MaxSubmitted == 3

\* ----------------------------------------------------------------- strings
None == <<>>
Some(x) == <<x>>

DecimalChars == <<"0", "1", "2", "3", "4", "5", "6", "7", "8", "9">>
UpperChars == <<"A", "B", "C", "D", "E", "F", "G", "H", "I", "J", "K", "L", "M",
                "N", "O", "P", "Q", "R", "S", "T", "U", "V", "W", "X", "Y", "Z">>
LowerChars == <<"a", "b", "c", "d", "e", "f", "g", "h", "i", "j", "k", "l", "m",
                "n", "o", "p", "q", "r", "s", "t", "u", "v", "w", "x", "y", "z">>

Range(s) == {s[i] : i \in 1..Len(s)}

IsDecimalChar(c) == c \in Range(DecimalChars)

\* str.isdigit() on one character: the decimal digits and the other
\* characters of Unicode property Digit, here U+00B2.
IsDigitChar(c) == IsDecimalChar(c) \/ c = "sup2"

\* str.isdigit(): non-empty and every character a digit.
isdigit(s) == Len(s) > 0 /\ \A i \in 1..Len(s) : IsDigitChar(s[i])

DigitValue(c) == (CHOOSE i \in 1..10 : DecimalChars[i] = c) - 1

\* int(s) raises ValueError unless s is a decimal literal.  The handler only
\* calls int on a stripped string that passed isdigit().
IntRaises(s) == \E i \in 1..Len(s) : ~IsDecimalChar(s[i])

RECURSIVE int(_)
int(s) ==
    IF s = <<>> THEN 0
    ELSE 10 * int(SubSeq(s, 1, Len(s) - 1)) + DigitValue(s[Len(s)])

\* The decimal text json.dump writes for a non-negative int.
RECURSIVE ToDecimal(_)
ToDecimal(n) ==
    IF n < 10 THEN <<DecimalChars[n + 1]>>
    ELSE ToDecimal(n \div 10) \o <<DecimalChars[(n % 10) + 1]>>

RECURSIVE LStripChars(_, _)
LStripChars(s, chars) ==
    IF s # <<>> /\ Head(s) \in chars THEN LStripChars(Tail(s), chars) ELSE s

RECURSIVE RStripChars(_, _)
RStripChars(s, chars) ==
    IF s # <<>> /\ s[Len(s)] \in chars
    THEN RStripChars(SubSeq(s, 1, Len(s) - 1), chars)
    ELSE s

\* str.strip(chars)
StripChars(s, chars) == RStripChars(LStripChars(s, chars), chars)

\* str.strip(): whitespace off both ends.
strip(s) == StripChars(s, {" "})

LowerChar(c) ==
    IF c \in Range(UpperChars)
    THEN LowerChars[CHOOSE i \in 1..26 : UpperChars[i] = c]
    ELSE c

\* str.lower()
lower(s) == [i \in 1..Len(s) |-> LowerChar(s[i])]

\* ------------------------------------------------------------ allowed_file
ALLOWED_EXTENSIONS ==
    {<<"p", "n", "g">>, <<"j", "p", "g">>, <<"j", "p", "e", "g">>, <<"p", "d", "f">>}

\* filename.rsplit('.', 1)[1]: the text after the last dot.
AfterLastDot(filename) ==
    LET k == CHOOSE i \in 1..Len(filename) :
                 /\ filename[i] = "."
                 /\ \A j \in (i + 1)..Len(filename) : filename[j] # "."
    IN SubSeq(filename, k + 1, Len(filename))

allowed_file(filename) ==
    /\ "." \in Range(filename)
    /\ lower(AfterLastDot(filename)) \in ALLOWED_EXTENSIONS

\* --------------------------------------------------------- secure_filename
\* werkzeug.utils.secure_filename on a POSIX host:
\*   NFKD-normalise and drop what is not ASCII; replace "/" by " ";
\*   "_".join(filename.split()); delete what is not in [A-Za-z0-9_.-];
\*   strip("._").
AsciiFold(c) == IF c = "sup2" THEN "2" ELSE c

SepToSpace(c) == IF c = "/" THEN " " ELSE c

RECURSIVE JoinRuns(_)
JoinRuns(s) ==
    IF s = <<>> THEN <<>>
    ELSE IF Head(s) = " "
         THEN IF Len(s) > 1 /\ s[2] = " "
              THEN JoinRuns(Tail(s))
              ELSE <<"_">> \o JoinRuns(Tail(s))
         ELSE <<Head(s)>> \o JoinRuns(Tail(s))

\* "_".join(s.split())
SplitJoin(s) == JoinRuns(strip(s))

IsFilenameChar(c) ==
    c \in Range(UpperChars) \cup Range(LowerChars) \cup Range(DecimalChars)
          \cup {"_", ".", "-"}

secure_filename(filename) ==
    LET ascii == [i \in 1..Len(filename) |-> SepToSpace(AsciiFold(filename[i]))]
    IN StripChars(SelectSeq(SplitJoin(ascii), IsFilenameChar), {".", "_"})

\* ------------------------------------------------------------------- forms
\* A submission: the fourteen form fields as sent (an absent field reads as
\* the empty string) and the optional file part, given by its filename.
Yes == <<"Y", "e", "s">>
Passport == <<"P", "a", "s", "s", "p", "o", "r", "t">>

Amina ==
    [name |-> <<"A", "m", "i", "n", "a">>,
     country |-> <<"S", "y", "r", "i", "a">>,
     age |-> <<"3", "4">>,
     gender |-> <<"F">>,
     dob |-> <<"1", "9", "9", "0", "-", "0", "1", "-", "0", "1">>,
     phone |-> <<>>,
     id_type |-> <<>>,
     id_value |-> <<>>,
     emergency_name |-> <<>>,
     emergency_phone |-> <<>>,
     traveling_family |-> <<>>,
     medical_concerns |-> <<>>,
     medical_details |-> <<>>,
     current_residence |-> <<>>,
     image |-> None]

\* Every field padded with spaces, the age with a leading zero.
Padded ==
    [name |-> <<" ", "A", "l", "i", " ">>,
     country |-> <<"I", "r", "a", "q", " ">>,
     age |-> <<" ", "0", "7", " ">>,
     gender |-> <<"M", " ">>,
     dob |-> <<" ", "2", "0", "1", "8">>,
     phone |-> <<" ", "1", "2", " ">>,
     id_type |-> <<>>,
     id_value |-> <<>>,
     emergency_name |-> <<" ", "B", "o", " ">>,
     emergency_phone |-> <<" ", "9">>,
     traveling_family |-> <<"2", " ">>,
     medical_concerns |-> <<>>,
     medical_details |-> <<>>,
     current_residence |-> <<" ", "C", "a", "m", "p", " ", "4", " ">>,
     image |-> None]

WithPassport ==
    [Amina EXCEPT !.id_type = Passport,
                  !.id_value = <<"P", "1">>,
                  !.image = Some(<<"a", ".", "p", "d", "f">>)]

\* Dependent fields filled in while the field they depend on is not set,
\* and a file part with an empty filename (no file chosen).
Unconditional ==
    [Amina EXCEPT !.id_value = <<"P", "1">>,
                  !.medical_concerns = <<"N", "o">>,
                  !.medical_details = <<"f", "l", "u">>,
                  !.image = Some(<<>>)]

Medical ==
    [Amina EXCEPT !.medical_concerns = Yes,
                  !.medical_details = <<" ", "f", "l", "u">>,
                  !.image = Some(<<".", ".", "/", "b", ".", "P", "N", "G">>)]

DotFile == [Amina EXCEPT !.image = Some(<<".", "p", "n", "g">>)]

AllWrong ==
    [Amina EXCEPT !.name = <<" ">>,
                  !.country = <<>>,
                  !.age = <<"3", "a">>,
                  !.gender = <<>>,
                  !.dob = <<>>,
                  !.phone = <<"1", "-", "2">>,
                  !.id_type = Passport,
                  !.medical_concerns = Yes,
                  !.image = Some(<<"a", ".", "e", "x", "e">>)]

Forms ==
    {Amina, Padded, WithPassport, Unconditional, Medical, DotFile, AllWrong}
    \cup {[Amina EXCEPT !.name = v] : v \in {<<>>, <<" ", " ">>}}
    \cup {[Amina EXCEPT !.country = <<" ">>]}
    \cup {[Amina EXCEPT !.age = v] :
            v \in {<<>>, <<" ">>, <<"-", "5">>, <<"0">>, <<"3", ".", "5">>, <<"sup2">>}}
    \cup {[Amina EXCEPT !.gender = <<>>], [Amina EXCEPT !.dob = <<>>]}
    \cup {[Amina EXCEPT !.phone = <<"1", "a">>]}
    \cup {[Amina EXCEPT !.id_type = Passport, !.id_value = v] : v \in {<<>>, <<" ">>}}
    \cup {[Amina EXCEPT !.medical_concerns = Yes, !.medical_details = v] :
            v \in {<<>>, <<" ">>}}
    \cup {[Amina EXCEPT !.image = Some(v)] :
            v \in {<<"a", ".", "e", "x", "e">>, <<"p", "n", "g">>}}
    \cup {[Amina EXCEPT !.name = <<>>, !.age = a, !.image = i] :
            a \in {<<"3", "4">>, <<"-", "5">>, <<"sup2">>},
            i \in {Some(<<"a", ".", "p", "d", "f">>), Some(<<"a", ".", "e", "x", "e">>)}}

\* The submissions of the two-worker specification.
ConcForms ==
    {Amina, Padded, WithPassport, [Amina EXCEPT !.name = <<>>]}

\* --------------------------------------------------- submit_form, its parts
\* The collection without .strip() on the name.
Collect_NameUntrimmed(form) ==
    [name |-> form.name,
     country |-> strip(form.country),
     age |-> strip(form.age),
     gender |-> form.gender,
     dob |-> form.dob,
     phone |-> strip(form.phone),
     id_type |-> form.id_type,
     id_value |-> strip(form.id_value),
     emergency_name |-> strip(form.emergency_name),
     emergency_phone |-> strip(form.emergency_phone),
     traveling_family |-> strip(form.traveling_family),
     medical_concerns |-> form.medical_concerns,
     medical_details |-> strip(form.medical_details),
     current_residence |-> strip(form.current_residence),
     image_file |-> form.image]

\* 1. COLLECT FORM INPUTS
Collect(form) ==
    [name |-> strip(form.name),
     country |-> strip(form.country),
     age |-> strip(form.age),
     gender |-> form.gender,
     dob |-> form.dob,
     phone |-> strip(form.phone),
     id_type |-> form.id_type,
     id_value |-> strip(form.id_value),
     emergency_name |-> strip(form.emergency_name),
     emergency_phone |-> strip(form.emergency_phone),
     traveling_family |-> strip(form.traveling_family),
     medical_concerns |-> form.medical_concerns,
     medical_details |-> strip(form.medical_details),
     current_residence |-> strip(form.current_residence),
     image_file |-> form.image]

Flash(category, message, arg) ==
    [category |-> category, message |-> message, arg |-> arg]

When(cond, flash) == IF cond THEN <<flash>> ELSE <<>>

NameFlashes(f) == When(f.name = <<>>, Flash("error", "Full Name is required", <<>>))

CountryFlashes(f) ==
    When(f.country = <<>>, Flash("error", "Country of Origin is required", <<>>))

AgeRequiredFlashes(f) == When(f.age = <<>>, Flash("error", "Age is required", <<>>))

\* Line 90 evaluates int(age) once age is non-empty and isdigit() holds.
AgeCheckRaises(f) == f.age # <<>> /\ isdigit(f.age) /\ IntRaises(f.age)

\* The age check without the test for zero.
AgePositiveFlashes_NoZeroTest(f) ==
    When(f.age # <<>> /\ ~isdigit(f.age),
         Flash("error", "Age must be a positive number", <<>>))

AgePositiveFlashes(f) ==
    When(f.age # <<>> /\ (~isdigit(f.age) \/ int(f.age) <= 0),
         Flash("error", "Age must be a positive number", <<>>))

GenderFlashes(f) == When(f.gender = <<>>, Flash("error", "Gender is required", <<>>))

DobFlashes(f) == When(f.dob = <<>>, Flash("error", "Date of Birth is required", <<>>))

PhoneFlashes(f) ==
    When(f.phone # <<>> /\ ~isdigit(f.phone),
         Flash("error", "Phone number must contain only digits", <<>>))

IdFlashes(f) ==
    When(f.id_type # <<>> /\ f.id_value = <<>>,
         Flash("error", "Please enter your {id_type} number", f.id_type))

\* The medical check comparing with "yes" instead of "Yes".
MedicalFlashes_Lowercase(f) ==
    When(f.medical_concerns = <<"y", "e", "s">> /\ f.medical_details = <<>>,
         Flash("error", "Please specify your medical concerns", <<>>))

MedicalFlashes(f) ==
    When(f.medical_concerns = Yes /\ f.medical_details = <<>>,
         Flash("error", "Please specify your medical concerns", <<>>))

\* if image_file and image_file.filename != ""
HasFile(f) == f.image_file # None /\ f.image_file[1] # <<>>

FileFlashes(f) ==
    When(HasFile(f) /\ ~allowed_file(f.image_file[1]),
         Flash("error", "Invalid file type. Only PNG, JPG, JPEG, or PDF allowed.", <<>>))

\* The notices flashed before line 90 raises.
FlashesBeforeRaise(f) == NameFlashes(f) \o CountryFlashes(f) \o AgeRequiredFlashes(f)

\* 2. VALIDATION: the notices flashed by lines 81-117, in order.
ValidationFlashes(f) ==
    NameFlashes(f) \o CountryFlashes(f) \o AgeRequiredFlashes(f)
        \o AgePositiveFlashes(f) \o GenderFlashes(f) \o DobFlashes(f)
        \o PhoneFlashes(f) \o IdFlashes(f) \o MedicalFlashes(f) \o FileFlashes(f)

\* Lines 118-122: the name the file is saved under, None when nothing is saved.
SavedFilename(f) ==
    IF HasFile(f) /\ allowed_file(f.image_file[1])
    THEN Some(secure_filename(f.image_file[1]))
    ELSE None

\* image_file.save(os.path.join(UPLOAD_FOLDER, filename))
SaveUpload(dir, saved) == IF saved = None THEN dir ELSE dir \cup {saved[1]}

\* Lines 137-153: the dictionary appended to data.
BuildRecord(f, filename) ==
    [name |-> f.name,
     country |-> f.country,
     age |-> int(f.age),
     gender |-> f.gender,
     dob |-> f.dob,
     phone |-> f.phone,
     id_type |-> f.id_type,
     id_value |-> f.id_value,
     emergency_name |-> f.emergency_name,
     emergency_phone |-> f.emergency_phone,
     traveling_family |-> f.traveling_family,
     medical_concerns |-> f.medical_concerns,
     medical_details |-> f.medical_details,
     current_residence |-> f.current_residence,
     image_filename |-> filename]

SuccessFlash == Flash("success", "Registration submitted successfully!", <<>>)

\* ------------------------------------------------------ registrations.json
\* The file is its JSON text, kept as the sequence of objects it lists (an
\* int as its decimal digits), whether the text parses, and its length.
EncodeRecord(r) == [r EXCEPT !.age = ToDecimal(r.age)]

DecodeRecord(j) == [j EXCEPT !.age = int(j.age)]

ObjectSize(j) ==
    334 + Len(j.name) + Len(j.country) + Len(j.age) + Len(j.gender) + Len(j.dob)
        + Len(j.phone) + Len(j.id_type) + Len(j.id_value) + Len(j.emergency_name)
        + Len(j.emergency_phone) + Len(j.traveling_family) + Len(j.medical_concerns)
        + Len(j.medical_details) + Len(j.current_residence)
        + (IF j.image_filename = None THEN 4 ELSE Len(j.image_filename[1]) + 2)

RECURSIVE TextSize(_)
TextSize(items) ==
    IF items = <<>> THEN 2 ELSE ObjectSize(Head(items)) + TextSize(Tail(items))

Absent == [exists |-> FALSE, wellformed |-> FALSE, items |-> <<>>, size |-> 0]

\* open("registrations.json", "w"): the file exists and is empty.
Truncated == [exists |-> TRUE, wellformed |-> FALSE, items |-> <<>>, size |-> 0]

\* json.load raises on text that is not one JSON value.
LoadRaises(f) == f.exists /\ ~f.wellformed

\* A handler that starts from an empty list instead of reading the store.
LoadStore_Fresh(f) == <<>>

\* Lines 130-134 and 170-174: the list read from the store.
LoadStore(f) ==
    IF f.exists THEN [i \in 1..Len(f.items) |-> DecodeRecord(f.items[i])] ELSE <<>>

\* A dump of the new record alone instead of the whole list.
DumpStore_LastOnly(f, data) ==
    LET items == <<EncodeRecord(data[Len(data)])>>
    IN [exists |-> TRUE, wellformed |-> TRUE, items |-> items, size |-> TextSize(items)]

\* json.dump(data, file, indent=2) and close: the text goes to offset 0 of
\* the file as it is now; what lay beyond its end stays.
DumpStore(f, data) ==
    LET items == [i \in 1..Len(data) |-> EncodeRecord(data[i])]
        n == TextSize(items)
    IN [exists |-> TRUE,
        wellformed |-> f.size <= n,
        items |-> items,
        size |-> IF f.size <= n THEN n ELSE f.size]

\* ------------------------------------------------------------------- state
VARIABLES
    file,            \* registrations.json
    uploads,         \* the names of the files in the uploads directory
    pc,              \* per worker: where its request stands
    request,         \* per worker: the request it is serving
    data,            \* per worker: the handler's local list data
    image_filename,  \* per worker: the handler's local image_filename
    flashes,         \* per worker: the notices flashed while serving the request
    response,        \* per worker: what the handler returned
    submitted        \* the rule-conforming submissions handled so far, in order

vars ==
    <<file, uploads, pc, request, data, image_filename, flashes, response, submitted>>

\* The workers serving requests; the development server serves one request
\* per thread.  The sequential specification uses the first alone.
Workers == {"w1", "w2"}
Main == "w1"

NoRequest == [route |-> "none", form |-> None]
NoResponse == [status |-> "none", registrations |-> <<>>]
Redirect == [status |-> "redirect", registrations |-> <<>>]
ServerError == [status |-> "error500", registrations |-> <<>>]
Page(list) == [status |-> "page", registrations |-> list]

Init ==
    /\ file = Absent
    /\ uploads = {}
    /\ pc = [w \in Workers |-> "idle"]
    /\ request = [w \in Workers |-> NoRequest]
    /\ data = [w \in Workers |-> <<>>]
    /\ image_filename = [w \in Workers |-> None]
    /\ flashes = [w \in Workers |-> <<>>]
    /\ response = [w \in Workers |-> NoResponse]
    /\ submitted = <<>>

\* ------------------------------------------------- the validation table
\* The rules of the specification's validation table (section 4.1), on the
\* values as the handler collects them (the text fields it trims, trimmed).
\* They are the yardstick of the claims and of the history variable
\* submitted; no handler reads them.
IsPositiveInteger(s) ==
    /\ s # <<>>
    /\ \A i \in 1..Len(s) : s[i] \in Range(DecimalChars)
    /\ \E i \in 1..Len(s) : s[i] # "0"

ViolatedRules(form) ==
    {r \in {"name", "country", "age", "gender", "dob", "phone", "id_value",
            "medical_details", "file"} :
        \/ r = "name" /\ strip(form.name) = <<>>
        \/ r = "country" /\ strip(form.country) = <<>>
        \/ r = "age" /\ ~IsPositiveInteger(strip(form.age))
        \/ r = "gender" /\ form.gender = <<>>
        \/ r = "dob" /\ form.dob = <<>>
        \/ r = "phone" /\ strip(form.phone) # <<>> /\ ~isdigit(strip(form.phone))
        \/ r = "id_value" /\ form.id_type # <<>> /\ strip(form.id_value) = <<>>
        \/ r = "medical_details" /\ form.medical_concerns = Yes
                                 /\ strip(form.medical_details) = <<>>
        \/ r = "file" /\ form.image # None /\ form.image[1] # <<>>
                      /\ \A e \in ALLOWED_EXTENSIONS :
                            \/ Len(form.image[1]) < Len(e) + 1
                            \/ lower(SubSeq(form.image[1],
                                            Len(form.image[1]) - Len(e),
                                            Len(form.image[1]))) # <<".">> \o e}

Conforms(form) == ViolatedRules(form) = {}

\* ----------------------------------------------------------------- requests
Pending(route) == {w \in Workers : pc[w] = "received" /\ request[w].route = route}

\* A client posts the form to /submit.
PostSubmit(w, form) ==
    /\ pc[w] = "idle"
    /\ Len(submitted) + Cardinality(Pending("submit")) < MaxSubmitted
    /\ Len(file.items) + Cardinality(Pending("submit")) < MaxSubmitted
    /\ pc' = [pc EXCEPT ![w] = "received"]
    /\ request' = [request EXCEPT ![w] = [route |-> "submit", form |-> Some(form)]]
    /\ UNCHANGED <<file, uploads, data, image_filename, flashes, response, submitted>>

\* A client requests /view.
GetView(w) ==
    /\ pc[w] = "idle"
    /\ pc' = [pc EXCEPT ![w] = "received"]
    /\ request' = [request EXCEPT ![w] = [route |-> "view", form |-> None]]
    /\ UNCHANGED <<file, uploads, data, image_filename, flashes, response, submitted>>

\* The response leaves; the worker is free for the next request.
Respond(w) ==
    /\ pc[w] = "responded"
    /\ pc' = [pc EXCEPT ![w] = "idle"]
    /\ request' = [request EXCEPT ![w] = NoRequest]
    /\ data' = [data EXCEPT ![w] = <<>>]
    /\ image_filename' = [image_filename EXCEPT ![w] = None]
    /\ flashes' = [flashes EXCEPT ![w] = <<>>]
    /\ response' = [response EXCEPT ![w] = NoResponse]
    /\ UNCHANGED <<file, uploads, submitted>>

Handled(form) == IF Conforms(form) THEN Append(submitted, form) ELSE submitted

\* -------------------------------------------------------------- submit_form
\* The whole handler, one request at a time.
submit_form(w) ==
    /\ pc[w] = "received"
    /\ request[w].route = "submit"
    /\ LET form == request[w].form[1]
           f == Collect(form)
       IN /\ submitted' = Handled(form)
          /\ pc' = [pc EXCEPT ![w] = "responded"]
          /\ IF AgeCheckRaises(f)
             THEN /\ flashes' = [flashes EXCEPT ![w] = FlashesBeforeRaise(f)]
                  /\ response' = [response EXCEPT ![w] = ServerError]
                  /\ UNCHANGED <<file, uploads, data, image_filename>>
             ELSE LET saved == SavedFilename(f)
                  IN /\ uploads' = SaveUpload(uploads, saved)
                     /\ image_filename' = [image_filename EXCEPT ![w] = saved]
                     /\ IF ValidationFlashes(f) # <<>>
                        THEN /\ flashes' = [flashes EXCEPT ![w] = ValidationFlashes(f)]
                             /\ response' = [response EXCEPT ![w] = Redirect]
                             /\ UNCHANGED <<file, data>>
                        ELSE IF LoadRaises(file)
                        THEN /\ flashes' = [flashes EXCEPT ![w] = <<>>]
                             /\ response' = [response EXCEPT ![w] = ServerError]
                             /\ UNCHANGED <<file, data>>
                        ELSE LET list == Append(LoadStore(file), BuildRecord(f, saved))
                             IN /\ data' = [data EXCEPT ![w] = list]
                                /\ file' = DumpStore(Truncated, list)
                                /\ flashes' = [flashes EXCEPT ![w] = <<SuccessFlash>>]
                                /\ response' = [response EXCEPT ![w] = Redirect]
    /\ UNCHANGED request

\* -------------------------------------------------------- view_registrations
view_registrations(w) ==
    /\ pc[w] = "received"
    /\ request[w].route = "view"
    /\ pc' = [pc EXCEPT ![w] = "responded"]
    /\ IF LoadRaises(file)
       THEN /\ response' = [response EXCEPT ![w] = ServerError]
            /\ UNCHANGED data
       ELSE /\ data' = [data EXCEPT ![w] = LoadStore(file)]
            /\ response' = [response EXCEPT ![w] = Page(LoadStore(file))]
    /\ UNCHANGED <<file, uploads, request, image_filename, flashes, submitted>>

\* ------------------------------------------------- sequential specification
Next ==
    \/ \E form \in Forms : PostSubmit(Main, form)
    \/ GetView(Main)
    \/ submit_form(Main)
    \/ view_registrations(Main)
    \/ Respond(Main)

Spec == Init /\ [][Next]_vars

\* ------------------------------------------- submit_form, statement by statement
\* The first part of the handler without the return of lines 125-126.
SubmitValidate_NoReturn(w) ==
    /\ pc[w] = "received"
    /\ request[w].route = "submit"
    /\ LET form == request[w].form[1]
           f == Collect(form)
       IN /\ submitted' = Handled(form)
          /\ uploads' = SaveUpload(uploads, SavedFilename(f))
          /\ image_filename' = [image_filename EXCEPT ![w] = SavedFilename(f)]
          /\ flashes' = [flashes EXCEPT ![w] = ValidationFlashes(f)]
          /\ pc' = [pc EXCEPT ![w] = "validated"]
    /\ UNCHANGED <<file, request, data, response>>

\* Lines 60-126: collect, validate, save the file, return on error.
SubmitValidate(w) ==
    /\ pc[w] = "received"
    /\ request[w].route = "submit"
    /\ LET form == request[w].form[1]
           f == Collect(form)
       IN /\ submitted' = Handled(form)
          /\ IF AgeCheckRaises(f)
             THEN /\ flashes' = [flashes EXCEPT ![w] = FlashesBeforeRaise(f)]
                  /\ response' = [response EXCEPT ![w] = ServerError]
                  /\ pc' = [pc EXCEPT ![w] = "responded"]
                  /\ UNCHANGED <<uploads, image_filename>>
             ELSE /\ uploads' = SaveUpload(uploads, SavedFilename(f))
                  /\ image_filename' = [image_filename EXCEPT ![w] = SavedFilename(f)]
                  /\ flashes' = [flashes EXCEPT ![w] = ValidationFlashes(f)]
                  /\ IF ValidationFlashes(f) # <<>>
                     THEN /\ response' = [response EXCEPT ![w] = Redirect]
                          /\ pc' = [pc EXCEPT ![w] = "responded"]
                     ELSE /\ pc' = [pc EXCEPT ![w] = "validated"]
                          /\ UNCHANGED response
    /\ UNCHANGED <<file, request, data>>

\* Lines 130-153: read the store and append the new dictionary to data.
SubmitLoad(w) ==
    /\ pc[w] = "validated"
    /\ IF LoadRaises(file)
       THEN /\ response' = [response EXCEPT ![w] = ServerError]
            /\ pc' = [pc EXCEPT ![w] = "responded"]
            /\ UNCHANGED data
       ELSE /\ data' = [data EXCEPT ![w] =
                           Append(LoadStore(file),
                                  BuildRecord(Collect(request[w].form[1]),
                                              image_filename[w]))]
            /\ pc' = [pc EXCEPT ![w] = "loaded"]
            /\ UNCHANGED response
    /\ UNCHANGED <<file, uploads, request, image_filename, flashes, submitted>>

\* Line 156: open("registrations.json", "w").
SubmitOpen(w) ==
    /\ pc[w] = "loaded"
    /\ file' = Truncated
    /\ pc' = [pc EXCEPT ![w] = "opened"]
    /\ UNCHANGED <<uploads, request, data, image_filename, flashes, response, submitted>>

\* Line 157 and the end of the with block: the text is written, the file closed.
SubmitDump(w) ==
    /\ pc[w] = "opened"
    /\ file' = DumpStore(file, data[w])
    /\ pc' = [pc EXCEPT ![w] = "dumped"]
    /\ UNCHANGED <<uploads, request, data, image_filename, flashes, response, submitted>>

\* Line 157 raising OSError (disk full): nothing of the text reaches the file.
WriteFails(w) ==
    /\ pc[w] = "opened"
    /\ response' = [response EXCEPT ![w] = ServerError]
    /\ pc' = [pc EXCEPT ![w] = "responded"]
    /\ UNCHANGED <<file, uploads, request, data, image_filename, flashes, submitted>>

\* Lines 160-161: the success notice and the redirect.
SubmitSuccess(w) ==
    /\ pc[w] = "dumped"
    /\ flashes' = [flashes EXCEPT ![w] = Append(flashes[w], SuccessFlash)]
    /\ response' = [response EXCEPT ![w] = Redirect]
    /\ pc' = [pc EXCEPT ![w] = "responded"]
    /\ UNCHANGED <<file, uploads, request, data, image_filename, submitted>>

\* ------------------------------------------------- two-worker specification
ConcNext ==
    \E w \in Workers :
        \/ \E form \in ConcForms : PostSubmit(w, form)
        \/ GetView(w)
        \/ SubmitValidate(w)
        \/ SubmitLoad(w)
        \/ SubmitOpen(w)
        \/ SubmitDump(w)
        \/ WriteFails(w)
        \/ SubmitSuccess(w)
        \/ view_registrations(w)
        \/ Respond(w)

ConcSpec == Init /\ [][ConcNext]_vars

\* =================================================================== claims
IsPrefix(s, t) == Len(s) <= Len(t) /\ SubSeq(t, 1, Len(s)) = s

\* Worker w is about to run the handler of a POST /submit.
Submitting(w) == pc[w] = "received" /\ request[w].route = "submit"

\* Worker w has finished a POST /submit.
Submitted(w) == pc[w] = "responded" /\ request[w].route = "submit"

HasSuccess(notices) == \E i \in 1..Len(notices) : notices[i].category = "success"

HasError(notices) == \E i \in 1..Len(notices) : notices[i].category = "error"

\* The record r carries the values of the submission: the text fields the
\* handler trims trimmed, gender, dob, id_type and medical_concerns as
\* sent, the age as the integer its text denotes, and a file reference
\* exactly when a file was chosen.
Carries(r, form) ==
    /\ r.name = strip(form.name)
    /\ r.country = strip(form.country)
    /\ r.age \in Nat
    /\ ToDecimal(r.age) = LStripChars(strip(form.age), {"0"})
    /\ r.gender = form.gender
    /\ r.dob = form.dob
    /\ r.phone = strip(form.phone)
    /\ r.id_type = form.id_type
    /\ r.id_value = strip(form.id_value)
    /\ r.emergency_name = strip(form.emergency_name)
    /\ r.emergency_phone = strip(form.emergency_phone)
    /\ r.traveling_family = strip(form.traveling_family)
    /\ r.medical_concerns = form.medical_concerns
    /\ r.medical_details = strip(form.medical_details)
    /\ r.current_residence = strip(form.current_residence)
    /\ (r.image_filename = None) <=> (form.image = None \/ form.image[1] = <<>>)

\* C1: a submission that violates a rule of the validation table leaves the
\* store file exactly as it was: nothing appended, the file neither created
\* nor rewritten.
C1_RejectedLeavesStore ==
    [][\A w \in Workers :
          (Submitting(w) /\ ViolatedRules(request[w].form[1]) # {} /\ pc'[w] # "received")
              => file' = file]_vars

\* A rule-violating submission has been handled while the store holds a record.
C1_Witness ==
    /\ Submitted(Main)
    /\ ViolatedRules(request[Main].form[1]) # {}
    /\ Len(file.items) >= 1

\* C2: a submission rejected with a validation error writes no file to the
\* uploads directory.
C2_RejectedSavesNoFile ==
    [][\A w \in Workers :
          (Submitting(w) /\ pc'[w] = "responded" /\ HasError(flashes'[w]))
              => uploads' = uploads]_vars

\* C3: every persisted record has non-empty name, country, gender and dob, a
\* positive integer age, a non-empty id_value when id_type is set and
\* non-empty medical_details when medical_concerns is "Yes".
C3_RecordInvariants ==
    \A i \in 1..Len(file.items) :
        LET j == file.items[i]
        IN /\ j.name # <<>>
           /\ j.country # <<>>
           /\ j.gender # <<>>
           /\ j.dob # <<>>
           /\ IsPositiveInteger(j.age)
           /\ DecodeRecord(j).age > 0
           /\ j.id_type # <<>> => j.id_value # <<>>
           /\ j.medical_concerns = Yes => j.medical_details # <<>>

\* The store holds a record with an id_type and one with medical concerns.
C3_Witness ==
    /\ \E i \in 1..Len(file.items) : file.items[i].id_type # <<>>
    /\ \E i \in 1..Len(file.items) : file.items[i].medical_concerns = Yes

RuleNotices(r) ==
    IF r = "name" THEN {"Full Name is required"}
    ELSE IF r = "country" THEN {"Country of Origin is required"}
    ELSE IF r = "age" THEN {"Age is required", "Age must be a positive number"}
    ELSE IF r = "gender" THEN {"Gender is required"}
    ELSE IF r = "dob" THEN {"Date of Birth is required"}
    ELSE IF r = "phone" THEN {"Phone number must contain only digits"}
    ELSE IF r = "id_value" THEN {"Please enter your {id_type} number"}
    ELSE IF r = "medical_details" THEN {"Please specify your medical concerns"}
    ELSE {"Invalid file type. Only PNG, JPG, JPEG, or PDF allowed."}

AllRules ==
    {"name", "country", "age", "gender", "dob", "phone", "id_value",
     "medical_details", "file"}

\* C6: every submission gets one error notice for each rule it violates and
\* none for a rule it keeps, and it is rejected if and only if it violates a
\* rule.
C6_AllViolationsReported ==
    Submitted(Main) =>
        LET form == request[Main].form[1]
            notices == flashes[Main]
        IN /\ \A r \in AllRules :
                 Cardinality({i \in 1..Len(notices) :
                                 /\ notices[i].category = "error"
                                 /\ notices[i].message \in RuleNotices(r)})
                     = IF r \in ViolatedRules(form) THEN 1 ELSE 0
           /\ HasError(notices) <=> ViolatedRules(form) # {}
           /\ HasSuccess(notices) <=> ViolatedRules(form) = {}

\* C7: no operation ever finds the store file holding anything but a complete
\* sequence: whenever a worker is about to read it, the file is absent or
\* parses.
ReadsNext(w) ==
    \/ pc[w] = "validated"
    \/ pc[w] = "received" /\ request[w].route = "view"

C7_StoreNeverPartial == (\E w \in Workers : ReadsNext(w)) => ~LoadRaises(file)

\* C8: once both workers have reported success, the store is the list the
\* last of them wrote: what that worker had read, plus its own record.  The
\* other worker's record is in it only if it was read before that write.
C8_LastWriterWins ==
    (\A w \in Workers : Submitted(w) /\ HasSuccess(flashes[w]))
        => \E w \in Workers :
              /\ file.items = [i \in 1..Len(data[w]) |-> EncodeRecord(data[w][i])]
              /\ Carries(data[w][Len(data[w])], request[w].form[1])

\* Both workers have reported success on an absent store, the store parses
\* and holds one record only.
C8_LostUpdate ==
    /\ \A w \in Workers : Submitted(w) /\ HasSuccess(flashes[w])
    /\ Len(submitted) = 2
    /\ file.wellformed
    /\ Len(file.items) = 1

\* C9: every persisted file reference names a file of the uploads directory
\* whose stored name has an allowed extension and no path component; a
\* submission without a file is stored with a null reference.
C9_FileReferences ==
    /\ \A i \in 1..Len(file.items) :
          LET ref == file.items[i].image_filename
          IN ref # None =>
                /\ ref[1] \in uploads
                /\ allowed_file(ref[1])
                /\ "/" \notin Range(ref[1])
                /\ ref[1] \notin {<<".">>, <<".", ".">>}
    /\ (Submitted(Main) /\ HasSuccess(flashes[Main])
            /\ (request[Main].form[1].image = None
                    \/ request[Main].form[1].image[1] = <<>>))
           => file.items[Len(file.items)].image_filename = None

\* C10: a submit_form call that returns its redirect either flashed errors
\* only and built no list to write, or flashed exactly one success notice,
\* no error, and wrote a list ending with the record of its submission; and
\* the success notice is flashed only once the worker's dump has completed.
C10_Outcome(w) ==
    (Submitted(w) /\ response[w].status = "redirect") =>
        \/ /\ HasError(flashes[w])
           /\ ~HasSuccess(flashes[w])
           /\ data[w] = <<>>
        \/ /\ ~HasError(flashes[w])
           /\ Len(flashes[w]) = 1
           /\ HasSuccess(flashes[w])
           /\ data[w] # <<>>
           /\ Carries(data[w][Len(data[w])], request[w].form[1])

C10_OneOutcome ==
    /\ [](\A w \in Workers : C10_Outcome(w))
    /\ [][\A w \in Workers :
             (~HasSuccess(flashes[w]) /\ HasSuccess(flashes'[w]))
                 => pc[w] = "dumped"]_vars

\* A worker has returned the error redirect and the other the success redirect.
C10_Witness ==
    /\ \E w \in Workers : Submitted(w) /\ HasError(flashes[w])
    /\ \E w \in Workers : Submitted(w) /\ HasSuccess(flashes[w])

====
